---- MODULE Spec2Model ----
(***************************************************************************)
(* Model of src/main.py (sync-jam-playlist): one run of the script is the  *)
(* module import (get_optimal_config) followed by sync_playlist(); the     *)
(* script may be run again and again against the same download directory.  *)
(* The external tool (yt-dlp), the tag library and the file system are the  *)
(* environment: their answers are drawn from small sets.                   *)
(*                                                                         *)
(* Text (file names, titles, ids) is a sequence of one-character strings,  *)
(* so that the file-name template and the id extraction are computed as    *)
(* the code computes them.                                                 *)
(***************************************************************************)
EXTENDS Integers, Sequences, FiniteSets, TLC

VARIABLES
    playlist,        \* the remote playlist: [count, items], items: index -> entry
    disk,            \* names of the files in DOWNLOAD_PATH (the snapshot file apart)
    metadata_file,   \* content of METADATA_FILE
    MAX_WORKERS, SEGMENT_SIZE, TOTAL_VIDEOS,   \* module globals (line 59)
    pc,              \* position of the main thread
    futures,         \* fetch wave: segment number -> state of its future
    finished,        \* fetch wave: segment numbers in completion order, not yet yielded
    segments,        \* fetch_playlist_info's local list `segments`
    playlist_data,   \* result of fetch_playlist_info
    existing_files,  \* result of get_existing_files
    to_download,     \* parallel_download's worklist
    downloads,       \* download wave: worklist position -> state of its task
    new_audios,      \* result of parallel_download
    exit_code,       \* exit status of the finished run
    log              \* observations of the current and of the previous run

vars == <<playlist, disk, metadata_file, MAX_WORKERS, SEGMENT_SIZE, TOTAL_VIDEOS,
          pc, futures, finished, segments, playlist_data, existing_files,
          to_download, downloads, new_audios, exit_code, log>>

-----------------------------------------------------------------------------
(* Bounds of the model *)

\* playlists have at most this many segments of 100 entries
MaxSegments == 2

\* the playlist of the pool specification has this many segments
MaxPoolSegments == 3

\* the planner specification: os.cpu_count() up to this, int(available_memory_gb * 2)
\* up to this, playlists of up to this many entries
MaxCpuCount == 5
MaxMemoryDoubled == 9
MaxPlannerCount == 3300

-----------------------------------------------------------------------------
(* Text *)

Str_sep == <<" ", "-", " ">>
Str_mp3 == <<".", "m", "p", "3">>

\* str.endswith
EndsWith(s, suffix) ==
    /\ Len(s) >= Len(suffix)
    /\ SubSeq(s, Len(s) - Len(suffix) + 1, Len(s)) = suffix

\* str.find: index (from 1) of the leftmost occurrence of pat in s, 0 if none
Find(s, pat) ==
    LET hits == {i \in 1..(Len(s) - Len(pat) + 1) : SubSeq(s, i, i + Len(pat) - 1) = pat}
    IN  IF hits = {} THEN 0 ELSE CHOOSE i \in hits : \A j \in hits : i <= j

\* s.split(sep)[-1]: split scans left to right over non-overlapping occurrences
RECURSIVE SplitLast(_, _)
SplitLast(s, sep) ==
    LET i == Find(s, sep)
    IN  IF i = 0 THEN s ELSE SplitLast(SubSeq(s, i + Len(sep), Len(s)), sep)

\* s.replace(old, ""): every non-overlapping occurrence, left to right
RECURSIVE Remove(_, _)
Remove(s, old) ==
    LET i == Find(s, old)
    IN  IF i = 0 THEN s
        ELSE SubSeq(s, 1, i - 1) \o Remove(SubSeq(s, i + Len(old), Len(s)), old)

\* the ascending sequence of the members of a finite set of integers
RECURSIVE Ascending(_)
Ascending(S) ==
    IF S = {} THEN <<>>
    ELSE LET m == CHOOSE x \in S : \A y \in S : x <= y
         IN  <<m>> \o Ascending(S \ {m})

\* os.path.join(DOWNLOAD_PATH, "playlist_metadata.json"), relative to DOWNLOAD_PATH
METADATA_FILE ==
    <<"p","l","a","y","l","i","s","t","_","m","e","t","a","d","a","t","a",
      ".","j","s","o","n">>

\* Python's None
None == [none |-> TRUE]

-----------------------------------------------------------------------------
(* The remote playlist (environment) *)

\* the playlist indices that carry an entry in this model: the first index
\* of every range of 100, and the last index of the first range
EntryIndices(count) ==
    {k \in 1..count : k % 100 = 1} \cup ({100} \cap 1..count)

IdLetters == <<"a", "b", "c", "d", "e", "f", "g", "h">>

\* ids are distinct and carry no space and no dot (YouTube ids: [A-Za-z0-9_-])
IdOfIndex(k) == <<IdLetters[(k \div 100) * 2 + (IF k % 100 = 1 THEN 1 ELSE 0)]>>

\* the titles of a playlist's entries: plain, or ending in " -"
Titles == { <<"t">>, <<"t", " ", "-">> }

\* the reported sizes: none, and for every number of segments a last segment
\* of one entry and a full last segment
PlaylistCounts == {0} \cup {100 * j + r : j \in 0..(MaxSegments - 1), r \in {1, 100}}

Playlists ==
    { [count |-> n,
       items |-> [k \in EntryIndices(n) |-> [id |-> IdOfIndex(k), title |-> t, url |-> "u"]]] :
        n \in PlaylistCounts, t \in Titles }

\* a playlist of MaxPoolSegments segments, the last of one entry
PoolPlaylist ==
    LET n == 100 * (MaxPoolSegments - 1) + 1
    IN  [count |-> n,
         items |-> [k \in EntryIndices(n) |-> [id |-> IdOfIndex(k), title |-> <<"t">>, url |-> "u"]]]

\* the reported sizes of the planner specification: around every multiple of 100
PlannerCounts == {n \in 0..MaxPlannerCount : n % 100 \in {0, 1, 99}}

\* playlists of which only the size matters
PlannerPlaylists == {[count |-> n, items |-> <<>>] : n \in PlannerCounts}

\* the segment query's answer for --playlist-start first --playlist-end last:
\* the entries of the playlist at these indices, in playlist order
RangeEntries(first, last) ==
    LET idx == Ascending({k \in DOMAIN playlist.items : first <= k /\ k <= last})
    IN  [j \in 1..Len(idx) |-> playlist.items[idx[j]]]

-----------------------------------------------------------------------------
(* Resource planner *)

\* os.cpu_count() (0 stands for None) and int(available_memory_gb * 2)
CpuCounts == {0, 1}
MemoryDoubled == {1, 3}

Min(a, b) == IF a <= b THEN a ELSE b
Max(a, b) == IF a >= b THEN a ELSE b

\* a planner that goes on with the playlist's size when the size query failed
get_optimal_config_no_fallback(cpu_count_raw, max_workers_by_memory, returncode, playlist_count) ==
    LET cpu_count       == IF cpu_count_raw = 0 THEN 2 ELSE cpu_count_raw
        base_workers    == cpu_count * 2
        optimal_workers == Min(Min(base_workers, max_workers_by_memory), 8)
        workers         == Max(2, optimal_workers)
    IN  IF returncode = 0
        THEN <<workers, Min(200, Max(100, playlist_count \div (workers * 2))), playlist_count>>
        ELSE <<workers, 150, playlist_count>>

\* a planner without the ceiling of 8 workers
get_optimal_config_uncapped(cpu_count_raw, max_workers_by_memory, returncode, playlist_count) ==
    LET cpu_count    == IF cpu_count_raw = 0 THEN 2 ELSE cpu_count_raw
        base_workers == cpu_count * 2
        workers      == Max(2, Min(base_workers, max_workers_by_memory))
    IN  IF returncode = 0
        THEN <<workers, Min(200, Max(100, playlist_count \div (workers * 2))), playlist_count>>
        ELSE <<workers, 150, 0>>

\* get_optimal_config, given what the host and the size query answer;
\* returns <<workers, segment_size, total_videos>>
get_optimal_config(cpu_count_raw, max_workers_by_memory, returncode, playlist_count) ==
    LET cpu_count       == IF cpu_count_raw = 0 THEN 2 ELSE cpu_count_raw
        base_workers    == cpu_count * 2
        optimal_workers == Min(Min(base_workers, max_workers_by_memory), 8)
        workers         == Max(2, optimal_workers)
    IN  IF returncode = 0
        THEN <<workers, Min(200, Max(100, playlist_count \div (workers * 2))), playlist_count>>
        ELSE <<workers, 150, 0>>

\* a number of segments that leaves out a last segment that is not full
num_segments_floor == TOTAL_VIDEOS \div SEGMENT_SIZE

\* math.ceil(TOTAL_VIDEOS / SEGMENT_SIZE)
num_segments == (TOTAL_VIDEOS + SEGMENT_SIZE - 1) \div SEGMENT_SIZE

\* fetch_playlist_segment's range for the start index submitted for segment i
start_index(i) == i * SEGMENT_SIZE + 1
end_index(i)   == start_index(i) + SEGMENT_SIZE - 1

-----------------------------------------------------------------------------
(* Local state store *)

\* the file yt-dlp writes for the template "%(title)s - %(id)s.%(ext)s" with
\* --audio-format mp3, which is also the path download_audio tags
FileName(entry) == entry.title \o Str_sep \o entry.id \o Str_mp3

\* os.listdir(DOWNLOAD_PATH)
listdir == disk \cup (IF metadata_file = None THEN {} ELSE {METADATA_FILE})

\* get_existing_files
get_existing_files ==
    { Remove(SplitLast(f, Str_sep), Str_mp3) : f \in {g \in listdir : EndsWith(g, Str_mp3)} }

-----------------------------------------------------------------------------
(* Segmented playlist fetcher *)

\* lines 115-119: combined_playlist IS segments[0], so clearing its entries
\* clears the first segment's; each extend reads the segment's entries as they
\* are at that moment
RECURSIVE extend_all(_, _, _)
extend_all(segs, k, entries) ==
    IF k > Len(segs) THEN entries
    ELSE extend_all(segs, k + 1,
                    entries \o (IF k = 1 THEN entries ELSE segs[k].entries))

combine(segs) == [segs[1] EXCEPT !.entries = extend_all(segs, 1, <<>>)]

-----------------------------------------------------------------------------
(* Diff engine *)

\* a diff that matches on the title
diff_by_title(entries, existing) ==
    SelectSeq(entries, LAMBDA entry : entry.title \notin existing)

\* a diff that keeps the entries that are local
diff_inverted(entries, existing) ==
    SelectSeq(entries, LAMBDA entry : entry.id \in existing)

\* lines 205-207: [entry for entry in entries if entry["id"] not in existing]
diff(entries, existing) == SelectSeq(entries, LAMBDA entry : entry.id \notin existing)

-----------------------------------------------------------------------------
(* Thread pools *)

\* the tasks of a pool that are in the given state
InState(pool, st) == {i \in DOMAIN pool : pool[i].state = st}

\* ThreadPoolExecutor(max_workers=MAX_WORKERS): a pending task starts, in
\* submission order, when fewer than MAX_WORKERS tasks are running
\* a pool that gives every submitted task a thread of its own
MayStart_thread_per_task(pool, i) ==
    /\ i \in InState(pool, "pending")
    /\ \A j \in InState(pool, "pending") : i <= j

MayStart(pool, i) ==
    /\ i \in InState(pool, "pending")
    /\ \A j \in InState(pool, "pending") : i <= j
    /\ Cardinality(InState(pool, "running")) < MAX_WORKERS

Submitted(tasks) == [i \in tasks |-> [state |-> "pending", outcome |-> "none"]]

AllDone(pool) == \A i \in DOMAIN pool : pool[i].state = "finished"

NoPool == Submitted({})

-----------------------------------------------------------------------------
(* State *)

NoLog == [invoked |-> <<>>, saves |-> 0, disk0 |-> {}, file0 |-> None,
          cpu_count |-> 0, memory_doubled |-> 0, returncode |-> 0,
          prev_ran |-> FALSE, prev_failed |-> {}]

\* the files a download of the playlist's entries would leave
PlaylistFiles == {FileName(playlist.items[k]) : k \in DOMAIN playlist.items}

\* a snapshot file left by an earlier run
OldSnapshot == [_type |-> "playlist", entries |-> RangeEntries(1, 1)]

\* the directory holds files of earlier runs, and their snapshot file or none
Init ==
    /\ playlist \in Playlists
    /\ disk \in SUBSET PlaylistFiles
    /\ metadata_file \in {None, OldSnapshot}
    /\ MAX_WORKERS = 0 /\ SEGMENT_SIZE = 0 /\ TOTAL_VIDEOS = 0
    /\ pc = "import"
    /\ futures = NoPool /\ finished = <<>> /\ segments = <<>>
    /\ playlist_data = None
    /\ existing_files = {}
    /\ to_download = <<>> /\ downloads = NoPool /\ new_audios = <<>>
    /\ exit_code = 0
    /\ log = NoLog

-----------------------------------------------------------------------------
(* Module import: lines 22-62 *)

\* line 59, when the host answers cpu and mem and the size query exits with
\* returncode (on 0 it prints the playlist's count)
ModuleInit(cpu, mem, returncode) ==
    /\ pc = "import"
    /\ LET config == get_optimal_config(cpu, mem, returncode, playlist.count)
       IN  /\ MAX_WORKERS' = config[1]
           /\ SEGMENT_SIZE' = config[2]
           /\ TOTAL_VIDEOS' = config[3]
    /\ log' = [log EXCEPT !.disk0 = disk, !.file0 = metadata_file,
                          !.cpu_count = cpu, !.memory_doubled = mem,
                          !.returncode = returncode]
    /\ pc' = "fetch"
    /\ UNCHANGED <<playlist, disk, metadata_file, futures, finished, segments,
                   playlist_data, existing_files, to_download, downloads,
                   new_audios, exit_code>>

Import ==
    \E cpu \in CpuCounts, mem \in MemoryDoubled, returncode \in {0, 1} :
        ModuleInit(cpu, mem, returncode)

-----------------------------------------------------------------------------
(* fetch_playlist_info: lines 82-121 *)

\* lines 84-102: nothing to do, or submit one task per segment
FetchBegin ==
    /\ pc = "fetch"
    /\ IF TOTAL_VIDEOS = 0
       THEN /\ playlist_data' = None
            /\ pc' = "check"
            /\ UNCHANGED <<futures, finished, segments>>
       ELSE /\ futures' = Submitted(0..(num_segments - 1))
            /\ finished' = <<>>
            /\ segments' = <<>>
            /\ pc' = "as_completed"
            /\ UNCHANGED playlist_data
    /\ UNCHANGED <<playlist, disk, metadata_file, MAX_WORKERS, SEGMENT_SIZE,
                   TOTAL_VIDEOS, existing_files, to_download, downloads,
                   new_audios, exit_code, log>>

\* a pool thread takes the next segment task
SegmentStart(i) ==
    /\ pc \in {"as_completed", "shutdown"}
    /\ MayStart(futures, i)
    /\ futures' = [futures EXCEPT ![i].state = "running"]
    /\ UNCHANGED <<playlist, disk, metadata_file, MAX_WORKERS, SEGMENT_SIZE,
                   TOTAL_VIDEOS, pc, finished, segments, playlist_data,
                   existing_files, to_download, downloads, new_audios,
                   exit_code, log>>

\* what the segment query may answer: exit 0 with a JSON document, a non-zero
\* exit, exit 0 with output that is no JSON
SegmentOutcomes == {"ok", "exit_nonzero", "bad_json"}

\* fetch_playlist_segment (lines 65-79) returns or raises; as_completed is
\* handed the future in completion order
fetch_playlist_segment(i, outcome) ==
    /\ pc \in {"as_completed", "shutdown"}
    /\ i \in InState(futures, "running")
    /\ futures' = [futures EXCEPT ![i] = [state |-> "finished", outcome |-> outcome]]
    /\ finished' = IF pc = "as_completed" THEN Append(finished, i) ELSE finished
    /\ UNCHANGED <<playlist, disk, metadata_file, MAX_WORKERS, SEGMENT_SIZE,
                   TOTAL_VIDEOS, pc, segments, playlist_data, existing_files,
                   to_download, downloads, new_audios, exit_code, log>>

\* json.loads(result.stdout) of a successful segment query
segment_data(i) == [_type |-> "playlist", entries |-> RangeEntries(start_index(i), end_index(i))]

\* lines 104-109: the loop body for the next completed future; future.result()
\* re-raises what json.loads raised, which leaves the loop and the function
AsCompleted ==
    /\ pc = "as_completed"
    /\ finished # <<>>
    /\ LET i == Head(finished)
       IN  /\ finished' = Tail(finished)
           /\ CASE futures[i].outcome = "ok" ->
                     /\ segments' = Append(segments, segment_data(i))
                     /\ pc' = "as_completed"
                [] futures[i].outcome = "exit_nonzero" ->
                     /\ segments' = segments
                     /\ pc' = "as_completed"
                [] OTHER ->
                     /\ segments' = segments
                     /\ pc' = "shutdown"
    /\ UNCHANGED <<playlist, disk, metadata_file, MAX_WORKERS, SEGMENT_SIZE,
                   TOTAL_VIDEOS, futures, playlist_data, existing_files,
                   to_download, downloads, new_audios, exit_code, log>>

\* a fetch that goes on once no completed future waits to be handled,
\* leaving the other segment queries to the pool
FetchReturn_no_wait ==
    /\ pc = "as_completed"
    /\ finished = <<>>
    /\ playlist_data' = IF segments = <<>> THEN None ELSE combine(segments)
    /\ pc' = "check"
    /\ UNCHANGED <<playlist, disk, metadata_file, MAX_WORKERS, SEGMENT_SIZE,
                   TOTAL_VIDEOS, futures, finished, segments, existing_files,
                   to_download, downloads, new_audios, exit_code, log>>

\* lines 111-121, once every future was handled
FetchReturn ==
    /\ pc = "as_completed"
    /\ AllDone(futures) /\ finished = <<>>
    /\ playlist_data' = IF segments = <<>> THEN None ELSE combine(segments)
    /\ pc' = "check"
    /\ UNCHANGED <<playlist, disk, metadata_file, MAX_WORKERS, SEGMENT_SIZE,
                   TOTAL_VIDEOS, futures, finished, segments, existing_files,
                   to_download, downloads, new_audios, exit_code, log>>

\* the executor's __exit__ waits for the tasks still pending or running, then
\* the exception leaves sync_playlist and the process ends with a traceback
FetchRaise ==
    /\ pc = "shutdown"
    /\ AllDone(futures)
    /\ pc' = "exit"
    /\ exit_code' = 1
    /\ UNCHANGED <<playlist, disk, metadata_file, MAX_WORKERS, SEGMENT_SIZE,
                   TOTAL_VIDEOS, futures, finished, segments, playlist_data,
                   existing_files, to_download, downloads, new_audios, log>>

-----------------------------------------------------------------------------
(* sync_playlist: lines 242-260 *)

\* a sync_playlist that saves what was fetched before it looks at it
SyncCheck_SaveFirst ==
    /\ pc = "check"
    /\ metadata_file' = playlist_data
    /\ log' = [log EXCEPT !.saves = @ + 1]
    /\ IF playlist_data = None
       THEN pc' = "exit" /\ exit_code' = 0
       ELSE pc' = "scan" /\ UNCHANGED exit_code
    /\ UNCHANGED <<playlist, disk, MAX_WORKERS, SEGMENT_SIZE,
                   TOTAL_VIDEOS, futures, finished, segments, playlist_data,
                   existing_files, to_download, downloads, new_audios>>

\* lines 246-248
SyncCheck ==
    /\ pc = "check"
    /\ IF playlist_data = None
       THEN pc' = "exit" /\ exit_code' = 0
       ELSE pc' = "scan" /\ UNCHANGED exit_code
    /\ UNCHANGED <<playlist, disk, metadata_file, MAX_WORKERS, SEGMENT_SIZE,
                   TOTAL_VIDEOS, futures, finished, segments, playlist_data,
                   existing_files, to_download, downloads, new_audios, log>>

\* lines 250-251
Scan ==
    /\ pc = "scan"
    /\ existing_files' = get_existing_files
    /\ pc' = "diff"
    /\ UNCHANGED <<playlist, disk, metadata_file, MAX_WORKERS, SEGMENT_SIZE,
                   TOTAL_VIDEOS, futures, finished, segments, playlist_data,
                   to_download, downloads, new_audios, exit_code, log>>

\* parallel_download, lines 205-216: the worklist, and one task per item
DownloadBegin ==
    /\ pc = "diff"
    /\ to_download' = diff(playlist_data.entries, existing_files)
    /\ IF to_download' = <<>>
       THEN /\ new_audios' = <<>>
            /\ pc' = "save"
            /\ UNCHANGED downloads
       ELSE /\ downloads' = Submitted(1..Len(to_download'))
            /\ pc' = "map"
            /\ UNCHANGED new_audios
    /\ UNCHANGED <<playlist, disk, metadata_file, MAX_WORKERS, SEGMENT_SIZE,
                   TOTAL_VIDEOS, futures, finished, segments, playlist_data,
                   existing_files, exit_code, log>>

\* isinstance(entry["url"], str)
IsStr(x) == x \in STRING

\* download_audio, lines 151-186: a pool thread takes the next item; an entry
\* whose url is no string is given up before yt-dlp is run
DownloadStart(k) ==
    /\ pc = "map"
    /\ MayStart(downloads, k)
    /\ IF IsStr(to_download[k].url)
       THEN /\ downloads' = [downloads EXCEPT ![k].state = "running"]
            /\ log' = [log EXCEPT !.invoked = Append(@, to_download[k].id)]
       ELSE /\ downloads' = [downloads EXCEPT ![k] =
                               [state |-> "finished", outcome |-> "invalid_url"]]
            /\ UNCHANGED log
    /\ UNCHANGED <<playlist, disk, metadata_file, MAX_WORKERS, SEGMENT_SIZE,
                   TOTAL_VIDEOS, pc, futures, finished, segments, playlist_data,
                   existing_files, to_download, new_audios, exit_code>>

\* yt-dlp exits 0 and the tags are rewritten; yt-dlp exits 0 and the tag
\* library raises (caught in update_metadata); yt-dlp exits non-zero
DownloadOutcomes == {"ok", "tag_error", "exit_nonzero"}

\* a download that counts only when its tags were written
Downloaded_and_tagged(outcome) == outcome = "ok"

\* yt-dlp exited 0: the file is written and download_audio returns the id
Downloaded(outcome) == outcome \in {"ok", "tag_error"}

\* a download whose failure cancels the downloads that have not started
download_audio_cancelling(k, outcome) ==
    /\ pc = "map"
    /\ k \in InState(downloads, "running")
    /\ downloads' = [j \in DOMAIN downloads |->
                       IF j = k THEN [state |-> "finished", outcome |-> outcome]
                       ELSE IF outcome = "exit_nonzero" /\ downloads[j].state = "pending"
                            THEN [state |-> "finished", outcome |-> "cancelled"]
                            ELSE downloads[j]]
    /\ disk' = IF Downloaded(outcome) THEN disk \cup {FileName(to_download[k])} ELSE disk
    /\ UNCHANGED <<playlist, metadata_file, MAX_WORKERS, SEGMENT_SIZE,
                   TOTAL_VIDEOS, pc, futures, finished, segments, playlist_data,
                   existing_files, to_download, new_audios, exit_code, log>>

\* download_audio, lines 186-200: yt-dlp ends; on exit 0 its file is there
download_audio(k, outcome) ==
    /\ pc = "map"
    /\ k \in InState(downloads, "running")
    /\ downloads' = [downloads EXCEPT ![k] = [state |-> "finished", outcome |-> outcome]]
    /\ disk' = IF Downloaded(outcome) THEN disk \cup {FileName(to_download[k])} ELSE disk
    /\ UNCHANGED <<playlist, metadata_file, MAX_WORKERS, SEGMENT_SIZE,
                   TOTAL_VIDEOS, pc, futures, finished, segments, playlist_data,
                   existing_files, to_download, new_audios, exit_code, log>>

\* a return value that is the id whatever yt-dlp's exit code
result_ignoring_exit(k) == <<to_download[k].id>>

\* download_audio's return value for a finished task: the id, or None
result(k) == IF Downloaded(downloads[k].outcome) THEN <<to_download[k].id>> ELSE <<>>

\* the ids of the results that are not None, in worklist order (line 218)
RECURSIVE successes(_)
successes(k) == IF k = 0 THEN <<>> ELSE successes(k - 1) \o result(k)

\* a download wave that returns what has finished so far
DownloadReturn_no_wait ==
    /\ pc = "map"
    /\ new_audios' = successes(Len(to_download))
    /\ pc' = "save"
    /\ UNCHANGED <<playlist, disk, metadata_file, MAX_WORKERS, SEGMENT_SIZE,
                   TOTAL_VIDEOS, futures, finished, segments, playlist_data,
                   existing_files, to_download, downloads, exit_code, log>>

\* lines 216-218: executor.map has every result; the pool is shut down
DownloadReturn ==
    /\ pc = "map"
    /\ AllDone(downloads)
    /\ new_audios' = successes(Len(to_download))
    /\ pc' = "save"
    /\ UNCHANGED <<playlist, disk, metadata_file, MAX_WORKERS, SEGMENT_SIZE,
                   TOTAL_VIDEOS, futures, finished, segments, playlist_data,
                   existing_files, to_download, downloads, exit_code, log>>

\* what is left of a snapshot file whose write failed after open() truncated it
Torn == [torn |-> TRUE]

\* open() and json.dump succeed; open() raises; json.dump or the write raises
SaveOutcomes == {"ok", "open_error", "write_error"}

\* save_metadata's effect on the snapshot file
save_metadata(metadata, outcome) ==
    CASE outcome = "ok"          -> metadata
      [] outcome = "open_error"  -> metadata_file
      [] outcome = "write_error" -> Torn

\* a save whose failure removes the files of this run
Save_rollback(outcome) ==
    /\ pc = "save"
    /\ metadata_file' = save_metadata(playlist_data, outcome)
    /\ disk' = IF outcome = "ok" THEN disk ELSE log.disk0
    /\ exit_code' = IF outcome = "ok" THEN 0 ELSE 1
    /\ log' = [log EXCEPT !.saves = @ + 1]
    /\ pc' = "exit"
    /\ UNCHANGED <<playlist, MAX_WORKERS, SEGMENT_SIZE, TOTAL_VIDEOS,
                   futures, finished, segments, playlist_data, existing_files,
                   to_download, downloads, new_audios>>

\* lines 255-260; an error of save_metadata is not caught
Save(outcome) ==
    /\ pc = "save"
    /\ metadata_file' = save_metadata(playlist_data, outcome)
    /\ exit_code' = IF outcome = "ok" THEN 0 ELSE 1
    /\ log' = [log EXCEPT !.saves = @ + 1]
    /\ pc' = "exit"
    /\ UNCHANGED <<playlist, disk, MAX_WORKERS, SEGMENT_SIZE, TOTAL_VIDEOS,
                   futures, finished, segments, playlist_data, existing_files,
                   to_download, downloads, new_audios>>

\* the ids whose download failed in the run that ended
FailedIds == {to_download[k].id : k \in {j \in DOMAIN downloads :
                                           ~Downloaded(downloads[j].outcome)}}

\* the script is run again: a new process, the same directory
RunAgain ==
    /\ pc = "exit"
    /\ pc' = "import"
    /\ MAX_WORKERS' = 0 /\ SEGMENT_SIZE' = 0 /\ TOTAL_VIDEOS' = 0
    /\ futures' = NoPool /\ finished' = <<>> /\ segments' = <<>>
    /\ playlist_data' = None
    /\ existing_files' = {}
    /\ to_download' = <<>> /\ downloads' = NoPool /\ new_audios' = <<>>
    /\ exit_code' = 0
    /\ log' = [NoLog EXCEPT !.prev_ran = TRUE, !.prev_failed = FailedIds]
    /\ UNCHANGED <<playlist, disk, metadata_file>>

Next ==
    \/ Import
    \/ FetchBegin
    \/ \E i \in DOMAIN futures : SegmentStart(i)
    \/ \E i \in DOMAIN futures, outcome \in SegmentOutcomes : fetch_playlist_segment(i, outcome)
    \/ AsCompleted
    \/ FetchReturn
    \/ FetchRaise
    \/ SyncCheck
    \/ Scan
    \/ DownloadBegin
    \/ \E k \in DOMAIN downloads : DownloadStart(k)
    \/ \E k \in DOMAIN downloads, outcome \in DownloadOutcomes : download_audio(k, outcome)
    \/ DownloadReturn
    \/ \E outcome \in SaveOutcomes : Save(outcome)

\* one run of the script
Spec == Init /\ [][Next]_vars

NextRerun ==
    \/ Next
    \/ RunAgain

\* os.makedirs has just created DOWNLOAD_PATH
InitFresh ==
    /\ Init
    /\ disk = {}
    /\ metadata_file = None

\* the script run any number of times, from an empty directory
SpecRerun == InitFresh /\ [][NextRerun]_vars

\* a playlist of MaxPoolSegments segments synchronised into an empty directory
InitPool ==
    /\ playlist = PoolPlaylist
    /\ disk = {}
    /\ metadata_file = None
    /\ MAX_WORKERS = 0 /\ SEGMENT_SIZE = 0 /\ TOTAL_VIDEOS = 0
    /\ pc = "import"
    /\ futures = NoPool /\ finished = <<>> /\ segments = <<>>
    /\ playlist_data = None
    /\ existing_files = {}
    /\ to_download = <<>> /\ downloads = NoPool /\ new_audios = <<>>
    /\ exit_code = 0
    /\ log = NoLog

\* one run of the script over more segments than the smallest pool has threads
SpecPool == InitPool /\ [][Next]_vars

\* line 59 on any host of up to MaxCpuCount cores
PlannerImport ==
    \E cpu \in 0..MaxCpuCount, mem \in 0..MaxMemoryDoubled, returncode \in {0, 1} :
        ModuleInit(cpu, mem, returncode)

InitPlanner ==
    /\ playlist \in PlannerPlaylists
    /\ disk = {}
    /\ metadata_file = None
    /\ MAX_WORKERS = 0 /\ SEGMENT_SIZE = 0 /\ TOTAL_VIDEOS = 0
    /\ pc = "import"
    /\ futures = NoPool /\ finished = <<>> /\ segments = <<>>
    /\ playlist_data = None
    /\ existing_files = {}
    /\ to_download = <<>> /\ downloads = NoPool /\ new_audios = <<>>
    /\ exit_code = 0
    /\ log = NoLog

NextPlanner ==
    \/ PlannerImport
    \/ FetchBegin

\* the planner and the submission of the fetch wave, for playlists of any size
SpecPlanner == InitPlanner /\ [][NextPlanner]_vars

-----------------------------------------------------------------------------
(* Properties *)

\* how many times x occurs in the sequence s
Occurrences(s, x) == Cardinality({j \in DOMAIN s : s[j] = x})

\* the segments whose query succeeded in this run
OkSegments == {i \in DOMAIN futures : futures[i].outcome = "ok"}

\* the segments whose query failed in this run
FailedSegments == {i \in DOMAIN futures : futures[i].outcome \in {"exit_nonzero", "bad_json"}}

\* fetch_playlist_info has just returned a snapshot
Fetched == pc = "check" /\ playlist_data # None

\* the playlist index of an entry
IndexOf(entry) == CHOOSE k \in DOMAIN playlist.items : playlist.items[k].id = entry.id

\* C1: when fetch_playlist_info returns a snapshot, every item of every
\* successfully fetched segment is in its entries exactly once, and nothing else
C1_EntriesAreAllSegments ==
    Fetched =>
        /\ \A i \in OkSegments : \A j \in DOMAIN segment_data(i).entries :
               Occurrences(playlist_data.entries, segment_data(i).entries[j]) = 1
        /\ \A j \in DOMAIN playlist_data.entries : \E i \in OkSegments :
               Occurrences(segment_data(i).entries, playlist_data.entries[j]) = 1

\* C2: the merged entries are in ascending playlist-index order whatever the
\* completion order; two fetched segments [1,100] and [101,200] give the
\* entries of indices 1..200, ascending
C2_EntriesInIndexOrder ==
    Fetched =>
        /\ \A j \in 1..(Len(playlist_data.entries) - 1) :
               IndexOf(playlist_data.entries[j]) < IndexOf(playlist_data.entries[j + 1])
        /\ (SEGMENT_SIZE = 100 /\ OkSegments = {0, 1})
               => playlist_data.entries = RangeEntries(1, 200)

\* C3: a segment query that fails (non-zero exit, or output that is no JSON)
\* is dropped: fetch_playlist_info does not raise, every sibling is still
\* fetched, none of the failed segment's entries are in the snapshot and the
\* successful siblings' entries are
C3_FailedSegmentDropped ==
    /\ pc # "shutdown"
    /\ (pc = "check" /\ TOTAL_VIDEOS > 0) => AllDone(futures)
    /\ (Fetched /\ FailedSegments # {}) =>
           /\ \A i \in FailedSegments : \A j \in DOMAIN segment_data(i).entries :
                  Occurrences(playlist_data.entries, segment_data(i).entries[j]) = 0
           /\ \A i \in OkSegments : \A j \in DOMAIN segment_data(i).entries :
                  Occurrences(playlist_data.entries, segment_data(i).entries[j]) = 1

\* C4: fetch_playlist_info returns None only if TOTAL_VIDEOS is 0 or every
\* segment query failed; if a segment query succeeded with an item, it returns
\* a snapshot with entries
C4_NoneOnlyIfNothingFetched ==
    pc = "check" =>
        /\ playlist_data = None => (TOTAL_VIDEOS = 0 \/ OkSegments = {})
        /\ (\E i \in OkSegments : segment_data(i).entries # <<>>)
               => (playlist_data # None /\ playlist_data.entries # <<>>)

\* parallel_download has computed its worklist in this run
Diffed == pc \in {"map", "save"} \/ (pc = "exit" /\ log.saves = 1)

\* the ids of a sequence of entries
IdsOf(entries) == {entries[j].id : j \in DOMAIN entries}

\* the ids of the remote playlist
PlaylistIds == {playlist.items[k].id : k \in DOMAIN playlist.items}

\* C5: the worklist is the entries of the snapshot whose id is not in the
\* local identifier set, in snapshot order, whatever their title or url; no
\* download is started for an id of the local identifier set
C5_WorklistIsMissingIds ==
    /\ Diffed =>
           LET entries == playlist_data.entries
               missing == Ascending({k \in DOMAIN entries : entries[k].id \notin existing_files})
           IN  to_download = [j \in 1..Len(missing) |-> entries[missing[j]]]
    /\ \A j \in DOMAIN log.invoked : log.invoked[j] \notin existing_files

\* C5 witness: an entry is skipped for its id, and an entry with the same title
\* and url, whose id is not local, is being downloaded
C5_Witness ==
    /\ pc = "map"
    /\ log.invoked # <<>>
    /\ \E j \in DOMAIN playlist_data.entries, k \in DOMAIN to_download :
           /\ playlist_data.entries[j].id \in existing_files
           /\ playlist_data.entries[j].title = to_download[k].title
           /\ playlist_data.entries[j].url = to_download[k].url

\* C7: the diff is idempotent: against the local set enlarged with the ids of
\* the worklist, the worklist is empty; for the local set of the run and for
\* every other set of ids
C7_DiffIdempotent ==
    Diffed =>
        /\ diff(playlist_data.entries, existing_files \cup IdsOf(to_download)) = <<>>
        /\ \A local \in SUBSET PlaylistIds :
               diff(playlist_data.entries,
                    local \cup IdsOf(diff(playlist_data.entries, local))) = <<>>

\* C7 witness: a worklist that is a proper, non-empty part of the snapshot
C7_Witness ==
    /\ pc = "map"
    /\ to_download # <<>>
    /\ Len(to_download) < Len(playlist_data.entries)
    /\ diff(playlist_data.entries, existing_files \cup IdsOf(to_download)) = <<>>

\* C8: in a run whose fetch_playlist_info returns None (or raises),
\* save_metadata is not called, the snapshot file is as it was when the run
\* began, and no download is started
C8_FailedFetchKeepsSnapshot ==
    (pc \in {"check", "exit"} /\ playlist_data = None) =>
        /\ log.saves = 0
        /\ metadata_file = log.file0
        /\ log.invoked = <<>>
        /\ disk = log.disk0

\* C8 witness: every segment query failed, the run is over and the earlier
\* snapshot is still there
C8_Witness ==
    /\ pc = "exit" /\ exit_code = 0
    /\ TOTAL_VIDEOS > 0
    /\ OkSegments = {} /\ FailedSegments # {}
    /\ playlist_data = None
    /\ metadata_file = OldSnapshot

\* C9: a failed download neither cancels nor blocks the others: during the
\* wave some task runs or may start, no item is downloaded twice, and after
\* the wave every item of the worklist was downloaded once and has an outcome
C9_EveryItemDownloadedOnce ==
    /\ pc = "map" =>
           /\ \A k \in DOMAIN to_download : Occurrences(log.invoked, to_download[k].id) <= 1
           /\ AllDone(downloads)
                  \/ InState(downloads, "running") # {}
                  \/ \E k \in DOMAIN downloads : MayStart(downloads, k)
    /\ (Diffed /\ pc # "map") =>
           /\ DOMAIN downloads = DOMAIN to_download
           /\ \A k \in DOMAIN to_download :
                  /\ Occurrences(log.invoked, to_download[k].id) = 1
                  /\ downloads[k].state = "finished"
                  /\ downloads[k].outcome \in DownloadOutcomes
           /\ Len(new_audios) =
                  Cardinality({k \in DOMAIN downloads : Downloaded(downloads[k].outcome)})

\* C9 witness: the wave is over, the first item failed and a later one did not
C9_Witness ==
    /\ pc = "save"
    /\ Len(to_download) >= 2
    /\ downloads[1].outcome = "exit_nonzero"
    /\ \E k \in DOMAIN downloads : k > 1 /\ downloads[k].outcome = "ok"

\* the entries of the fetched snapshot whose id the scan found in the directory
LocalEntries == {j \in DOMAIN playlist_data.entries : playlist_data.entries[j].id \in existing_files}

\* the worklist positions whose download failed
Failures == {k \in DOMAIN downloads : downloads[k].outcome = "exit_nonzero"}

\* C11: once the download wave is over, with n entries in the fetched snapshot
\* of which k have their id in the local set, yt-dlp was invoked for exactly
\* the other n - k entries, and the reported count len(new_audios) is n - k
\* minus the number of failed downloads, the reported ids being those of the
\* downloads that did not fail
C11_ReportedCountIsWorklistMinusFailures ==
    (Diffed /\ pc # "map") =>
        LET n == Len(playlist_data.entries)
            k == Cardinality(LocalEntries)
        IN  /\ Len(to_download) = n - k
            /\ Len(log.invoked) = n - k
            /\ \A j \in DOMAIN playlist_data.entries :
                   j \notin LocalEntries <=>
                       Occurrences(log.invoked, playlist_data.entries[j].id) = 1
            /\ Len(new_audios) = (n - k) - Cardinality(Failures)
            /\ IdsOf([j \in DOMAIN new_audios |-> [id |-> new_audios[j]]]) =
                   {to_download[j].id : j \in DOMAIN to_download \ Failures}

\* C11 witness: a snapshot of two entries, one of them local; the download of
\* the other failed and nothing is reported
C11_Witness ==
    /\ pc = "save"
    /\ Len(playlist_data.entries) = 2
    /\ Cardinality(LocalEntries) = 1
    /\ Cardinality(Failures) = 1
    /\ new_audios = <<>>

\* C12: a finished run whose downloads failed in part, and whose snapshot was
\* saved, has exit code zero; a finished run whose fetch returned nothing
\* (the size query failed or reported zero, or every segment query failed)
\* has a non-zero exit code
C12_ExitCodeTellsFetchFailure ==
    pc = "exit" =>
        /\ (playlist_data # None /\ Failures # {} /\ metadata_file = playlist_data)
               => exit_code = 0
        /\ playlist_data = None => exit_code # 0

\* C13: whatever os.cpu_count() answers (2 cores are assumed when it answers
\* None), whatever the available memory (taken as the whole number
\* int(available_memory_gb * 2)) and whatever size > 0 the size query prints,
\* MAX_WORKERS is min(2 * cores, doubled memory) clamped to 2..8 and
\* SEGMENT_SIZE is the whole quotient TOTAL_VIDEOS / (2 * MAX_WORKERS)
\* clamped to 100..200
C13_PlannerClamps ==
    (pc # "import" /\ log.returncode = 0 /\ playlist.count > 0) =>
        LET clamp(x, lo, hi) == IF x < lo THEN lo ELSE IF x > hi THEN hi ELSE x
            cpuCores == IF log.cpu_count = 0 THEN 2 ELSE log.cpu_count
            lesser   == IF 2 * cpuCores <= log.memory_doubled
                        THEN 2 * cpuCores ELSE log.memory_doubled
        IN  /\ TOTAL_VIDEOS = playlist.count
            /\ MAX_WORKERS = clamp(lesser, 2, 8)
            /\ MAX_WORKERS \in 2..8
            /\ SEGMENT_SIZE = clamp(TOTAL_VIDEOS \div (2 * MAX_WORKERS), 100, 200)
            /\ SEGMENT_SIZE \in 100..200

\* C13 witness: a host and a playlist for which neither clamp is active
C13_Witness ==
    /\ pc = "fetch"
    /\ log.returncode = 0
    /\ log.cpu_count > 0
    /\ 2 < MAX_WORKERS /\ MAX_WORKERS < 8
    /\ 100 < SEGMENT_SIZE /\ SEGMENT_SIZE < 200

\* C14: after a size query that exited non-zero, SEGMENT_SIZE is the fallback
\* 150 and TOTAL_VIDEOS is 0; no segment query is ever submitted, and
\* fetch_playlist_info returns None
C14_SizeQueryFailureFetchesNothing ==
    (pc # "import" /\ log.returncode # 0) =>
        /\ SEGMENT_SIZE = 150
        /\ TOTAL_VIDEOS = 0
        /\ futures = NoPool /\ finished = <<>> /\ segments = <<>>
        /\ pc \in {"fetch", "check", "exit"}
        /\ playlist_data = None

\* C14 witness: the run over a playlist that has entries ended after a failed
\* size query
C14_Witness ==
    /\ pc = "exit"
    /\ log.returncode # 0
    /\ playlist.count > 0
    /\ playlist_data = None
    /\ futures = NoPool

\* C15: when the tag library raises after yt-dlp exited 0, the downloaded
\* file stays in the directory; the wave goes on until every item of the
\* worklist was handed to yt-dlp and has finished; the item's id is among the
\* reported ids; and the run ends with save_metadata called
C15_TagErrorIsNotFatal ==
    \A k \in DOMAIN downloads :
        downloads[k].outcome = "tag_error" =>
            /\ FileName(to_download[k]) \in disk
            /\ pc \in {"map", "save", "exit"}
            /\ pc = "map" =>
                   \/ AllDone(downloads)
                   \/ InState(downloads, "running") # {}
                   \/ \E j \in DOMAIN downloads : MayStart(downloads, j)
            /\ pc \in {"save", "exit"} =>
                   /\ Occurrences(new_audios, to_download[k].id) = 1
                   /\ \A j \in DOMAIN to_download :
                          /\ Occurrences(log.invoked, to_download[j].id) = 1
                          /\ downloads[j].state = "finished"
                          /\ downloads[j].outcome \in DownloadOutcomes
            /\ pc = "exit" => log.saves = 1

\* C15 witness: the run ended with exit code 0 and the snapshot saved, after
\* the first download's tagging failed and the second download succeeded
C15_Witness ==
    /\ pc = "exit"
    /\ exit_code = 0
    /\ metadata_file = playlist_data
    /\ Len(to_download) = 2
    /\ downloads[1].outcome = "tag_error"
    /\ downloads[2].outcome = "ok"

\* the files yt-dlp wrote in this run
WrittenFiles == {FileName(to_download[k]) : k \in {j \in DOMAIN downloads :
                                                     Downloaded(downloads[j].outcome)}}

\* C16: when save_metadata raised, the directory holds what it held when the
\* run began and every file a download of this run wrote
C16_SaveFailureKeepsDownloads ==
    (pc = "exit" /\ log.saves = 1 /\ exit_code # 0) =>
        disk = log.disk0 \cup WrittenFiles

\* C16 witness: save_metadata raised at the end of a run that wrote a file
\* the directory did not hold
C16_Witness ==
    /\ pc = "exit"
    /\ log.saves = 1
    /\ exit_code # 0
    /\ WrittenFiles \ log.disk0 # {}

\* the yt-dlp processes of the two waves that are running
InFlight == Cardinality(InState(futures, "running")) + Cardinality(InState(downloads, "running"))

\* C17: in every state at most MAX_WORKERS segment queries are running, at
\* most MAX_WORKERS downloads are running, and so are at most MAX_WORKERS
\* yt-dlp processes of the two waves together
C17_AtMostWorkerCountInFlight ==
    /\ Cardinality(InState(futures, "running")) <= MAX_WORKERS
    /\ Cardinality(InState(downloads, "running")) <= MAX_WORKERS
    /\ InFlight <= MAX_WORKERS

\* C17 witness: the download wave has MAX_WORKERS downloads running and an
\* item waiting for a thread, after a fetch wave of more segments than threads
C17_Witness ==
    /\ pc = "map"
    /\ Cardinality(DOMAIN futures) > MAX_WORKERS
    /\ Cardinality(InState(downloads, "running")) = MAX_WORKERS
    /\ InState(downloads, "pending") # {}

\* C18: when a download has been submitted or started, every segment query
\* has finished and has been handled, and the worklist has been computed; a
\* segment query and a download are never running together
C18_WavesAreSequential ==
    /\ (downloads # NoPool \/ log.invoked # <<>>) =>
           /\ AllDone(futures)
           /\ finished = <<>>
           /\ Diffed
           /\ to_download = diff(playlist_data.entries, existing_files)
    /\ ~(InState(futures, "running") # {} /\ InState(downloads, "running") # {})

\* C18 witness: a download is running after a fetch wave of several segment
\* queries, all of them finished
C18_Witness ==
    /\ pc = "map"
    /\ InState(downloads, "running") # {}
    /\ Cardinality(DOMAIN futures) >= 2
    /\ AllDone(futures)

\* C19: save_metadata is called at most once in a run, and once in a run
\* whose fetch returned a snapshot and that has ended; when the main thread
\* is about to call it, and ever after, every item of the worklist has
\* finished its download and no segment query or download is running; a
\* call that succeeds leaves the fetched snapshot in the file
C19_SnapshotSavedOnceAfterWaves ==
    /\ log.saves <= 1
    /\ (pc = "exit" /\ playlist_data # None) => log.saves = 1
    /\ (pc = "save" \/ log.saves >= 1) =>
           /\ DOMAIN downloads = DOMAIN to_download
           /\ AllDone(downloads)
           /\ AllDone(futures)
           /\ InFlight = 0
    /\ (pc = "exit" /\ log.saves = 1 /\ exit_code = 0) => metadata_file = playlist_data

\* C19 witness: the run ended with the snapshot saved, after a download wave
\* of two items of which one failed
C19_Witness ==
    /\ pc = "exit"
    /\ log.saves = 1
    /\ exit_code = 0
    /\ metadata_file = playlist_data
    /\ Len(to_download) = 2
    /\ Cardinality(Failures) = 1

\* C20: once the fetch wave is submitted for TOTAL_VIDEOS > 0, its queries are
\* numbered 0..n-1 with n the least whole number that is at least
\* TOTAL_VIDEOS / SEGMENT_SIZE; query i asks for the indices from
\* i * SEGMENT_SIZE + 1 to (i + 1) * SEGMENT_SIZE; the ranges of two queries
\* share no index, and every index 1..TOTAL_VIDEOS is in the range of a query
C20_RangesPartitionThePlaylist ==
    pc = "as_completed" =>
        LET n == Cardinality(DOMAIN futures)
        IN  /\ TOTAL_VIDEOS > 0
            /\ DOMAIN futures = 0..(n - 1)
            /\ (n - 1) * SEGMENT_SIZE < TOTAL_VIDEOS
            /\ TOTAL_VIDEOS <= n * SEGMENT_SIZE
            /\ \A i \in DOMAIN futures :
                   /\ start_index(i) = i * SEGMENT_SIZE + 1
                   /\ end_index(i) = (i + 1) * SEGMENT_SIZE
                   /\ \A j \in DOMAIN futures :
                          i < j => end_index(i) < start_index(j)
            /\ \A x \in 1..TOTAL_VIDEOS :
                   LET i == (x - 1) \div SEGMENT_SIZE
                   IN  /\ i \in DOMAIN futures
                       /\ start_index(i) <= x
                       /\ x <= end_index(i)

\* C20 witness: a fetch wave of several queries whose last range reaches
\* beyond the end of the playlist, with a segment size that is neither bound
C20_Witness ==
    /\ pc = "as_completed"
    /\ Cardinality(DOMAIN futures) >= 3
    /\ 100 < SEGMENT_SIZE /\ SEGMENT_SIZE < 200
    /\ TOTAL_VIDEOS % SEGMENT_SIZE # 0

\* every file of the playlist was in the directory when the run began
AllFilesPresent == PlaylistFiles \subseteq log.disk0

\* C6: a run that follows a run, with the remote playlist as it was and the
\* file "<title> - <id>.mp3" of every entry in the directory, each written by
\* download_audio, starts no download (the id that get_existing_files reads
\* from each of these names is the entry's id)
C6_SecondRunDownloadsNothing ==
    (log.prev_ran /\ AllFilesPresent) => log.invoked = <<>>

\* C10: a failed download is attempted once in its run, its id is not in the
\* local identifier set afterwards, and the next run, if it fetches every
\* segment, has the item in its worklist
C10_FailedItemRetriedNextRun ==
    /\ \A k \in DOMAIN to_download : Occurrences(log.invoked, to_download[k].id) <= 1
    /\ pc = "exit" => FailedIds \cap get_existing_files = {}
    /\ (Diffed /\ log.prev_ran /\ OkSegments = DOMAIN futures) =>
           \A id \in log.prev_failed : id \in IdsOf(to_download)

====
